---------------------------- MODULE Spec2Model ----------------------------
(***************************************************************************)
(* A model of the AVACore middleware (connection descriptor, API registry, *)
(* request executor) and of the helper functions of                        *)
(* src/utils/helperfunctions.ts (HRP lookup, private-key and node-ID       *)
(* string forms, import-transaction cost).                                 *)
(*                                                                         *)
(* JavaScript runs every handler to completion, so each synchronous call   *)
(* (setAddress, addAPI, api, the synchronous part of _request, a promise   *)
(* callback) is one action.  Opaque JavaScript objects (headers, bodies,   *)
(* transport handles) are denoted by strings; JavaScript strings that the  *)
(* code concatenates are TLA+ strings, and strings the code inspects       *)
(* character by character are sequences of one-character strings.          *)
(***************************************************************************)
EXTENDS Integers, Sequences, FiniteSets, TLC

VARIABLES
    txBytesGas, \* Defaults.network[1].C["txBytesGas"], fixed at start-up
    protocol,   \* AVACore.protocol
    ip,         \* AVACore.ip
    port,       \* AVACore.port
    url,        \* AVACore.url
    lastSet,    \* history: the arguments of the most recent setAddress call
    cfgHeap,    \* the AxiosRequestConfig objects callers own, by reference
    reqs,       \* the requests issued so far, in order of issue
    apis,       \* AVACore.apis: the own properties of the registry object
    nextInst,   \* identity of the next API instance a constructor creates
    regLog,     \* history: the addAPI calls made so far, in order
    ret,        \* the last api() call: its label, the value it returned and
                \* the number of addAPI calls made before it
    hcall,      \* the last helper-function call: its name and argument
    hres,       \* what that helper call returned or threw
    tx          \* the unsigned import transaction the fee helper is given

vars == <<txBytesGas, protocol, ip, port, url, lastSet, cfgHeap, reqs, apis, nextInst,
          regLog, ret, hcall, hres, tx>>

connVars == <<protocol, ip, port, url, lastSet, cfgHeap, reqs>>
regVars == <<apis, nextInst, regLog, ret>>
helperVars == <<txBytesGas, hcall, hres, tx>>

(***************************************************************************)
(* Bounds of the model.                                                    *)
(***************************************************************************)
MaxRequests == 2
MaxInstances == 3
MaxBufLen == 2
MaxNetworkID == 12
MaxTxLen == 3
MaxInputs == 2

(***************************************************************************)
(* JavaScript values.                                                      *)
(***************************************************************************)
\* an omitted (undefined) string or object argument
Undefined == "<undefined>"
\* a property an object does not have
Absent == "<absent>"

(***************************************************************************)
(* AVACore: the connection descriptor.                                     *)
(***************************************************************************)
\* The (ip, port, protocol) triples callers pass; the first omits protocol.
Addresses ==
    { [ip |-> "127.0.0.1", port |-> 9650, protocol |-> Undefined],
      [ip |-> "api.avax.network", port |-> 443, protocol |-> "https"] }

\* setAddress's default parameter value: protocol:string = "http"
DefaultProtocol(p) == IF p = Undefined THEN "http" ELSE p

\* setAddress with the port left out of the derived URL.
setAddress_UrlWithoutPort(ipArg, portArg, protocolArg) ==
    LET proto == DefaultProtocol(protocolArg) IN
    [ ip |-> ipArg,
      port |-> portArg,
      protocol |-> proto,
      url |-> proto \o "://" \o ipArg ]

\* The fields of `this` after setAddress(ipArg, portArg, protocolArg).
setAddress(ipArg, portArg, protocolArg) ==
    LET proto == DefaultProtocol(protocolArg) IN
    [ ip |-> ipArg,
      port |-> portArg,
      protocol |-> proto,
      url |-> proto \o "://" \o ipArg \o ":" \o ToString(portArg) ]

getProtocol == protocol
getIP == ip
getPort == port
getURL == url

\* SetAddress as it would be if requests in flight resolved their base URL
\* only when the transport runs: they follow the new address.
SetAddress_RebasesInFlight(a) ==
    LET this == setAddress(a.ip, a.port, a.protocol) IN
    /\ ip' = this.ip
    /\ port' = this.port
    /\ protocol' = this.protocol
    /\ url' = this.url
    /\ lastSet' = a
    /\ reqs' = [i \in DOMAIN reqs |->
                  IF reqs[i].state = "pending" /\ reqs[i].axiosConfig = Undefined
                  THEN [reqs[i] EXCEPT !.config.baseURL = this.url]
                  ELSE reqs[i]]
    /\ UNCHANGED cfgHeap
    /\ UNCHANGED <<regVars, helperVars>>

SetAddress(a) ==
    LET this == setAddress(a.ip, a.port, a.protocol) IN
    /\ ip' = this.ip
    /\ port' = this.port
    /\ protocol' = this.protocol
    /\ url' = this.url
    /\ lastSet' = a
    /\ UNCHANGED <<cfgHeap, reqs>>
    /\ UNCHANGED <<regVars, helperVars>>

(***************************************************************************)
(* AVACore: the request executor.                                          *)
(***************************************************************************)
\* The AxiosRequestConfig objects callers pass as axiosConfig, as they are
\* before any request used them: one object, naming a base URL of its own.
ConfigRefs == {"cfgProxy"}

EmptyConfig ==
    [ baseURL |-> Absent, responseType |-> Absent, url |-> Absent,
      method |-> Absent, headers |-> Absent, data |-> Absent, params |-> Absent ]

CallerConfig(ref) ==
    [EmptyConfig EXCEPT !.baseURL = "https://proxy.example:8443",
                        !.responseType = "json"]

\* The (baseurl, getdata, postdata, headers) arguments callers pass; the
\* first omits headers.
InfoArgs ==
    [ baseurl |-> "/ext/X/info", getdata |-> "{}",
      postdata |-> "{jsonrpc:2.0,id:1}", headers |-> Undefined ]

ChainArgs ==
    [ baseurl |-> "/ext/bc/X", getdata |-> "{page:2}",
      postdata |-> "{jsonrpc:2.0,id:2}", headers |-> "{X-Auth:t}" ]

\* The calls the clients of the model make, per wrapper.
GetArgs == {InfoArgs, ChainArgs}
DeleteArgs == {ChainArgs}
PostArgs == {InfoArgs, ChainArgs}
PutArgs == {InfoArgs}
PatchArgs == {ChainArgs}

\* What the transport answers: AxiosResponse objects, and errors.
Responses ==
    { [ data |-> "ok", headers |-> "{content-type:text}", request |-> "xhr#1",
        status |-> 200, statusText |-> "OK" ],
      [ data |-> "{result:1}", headers |-> "{content-type:json}",
        request |-> "xhr#2", status |-> 201, statusText |-> "Created" ] }

TransportErrors == {"Network Error"}

\* _request's default parameter value: headers:object = {}
DefaultHeaders(h) == IF h = Undefined THEN "{}" ELSE h

\* The config _request starts from: the caller's object when one is given
\* (the same object, not a copy), else a fresh one naming the stored
\* descriptor.
BaseConfig(axiosConfig) ==
    IF axiosConfig # Undefined
    THEN cfgHeap[axiosConfig]
    ELSE [EmptyConfig EXCEPT
            !.baseURL = protocol \o "://" \o ip \o ":" \o ToString(port),
            !.responseType = "text"]

\* RequestConfig without the assignment config.data = postdata.
RequestConfig_DataNotSet(xhrmethod, baseurl, getdata, postdata, headers, axiosConfig) ==
    [BaseConfig(axiosConfig) EXCEPT
        !.url = baseurl,
        !.method = xhrmethod,
        !.headers = DefaultHeaders(headers),
        !.params = getdata]

\* The config as _request hands it to axios.request.
RequestConfig(xhrmethod, baseurl, getdata, postdata, headers, axiosConfig) ==
    [BaseConfig(axiosConfig) EXCEPT
        !.url = baseurl,
        !.method = xhrmethod,
        !.headers = DefaultHeaders(headers),
        !.data = postdata,
        !.params = getdata]

\* RequestResponseData with the status copied into statusText.
RequestResponseData_StatusAsText(resp) ==
    [ data |-> resp.data,
      headers |-> resp.headers,
      request |-> resp.request,
      status |-> resp.status,
      statusText |-> ToString(resp.status) ]

\* The then-callback of _request: the value its promise is fulfilled with.
RequestResponseData(resp) ==
    [ data |-> resp.data,
      headers |-> resp.headers,
      request |-> resp.request,
      status |-> resp.status,
      statusText |-> resp.statusText ]

\* A request whose transport promise was fulfilled with resp.
OnFulfilled(r, resp) ==
    [r EXCEPT !.state = "fulfilled",
              !.result = [kind |-> "fulfilled", value |-> RequestResponseData(resp)]]

\* OnRejected with a retry: the transport is called again.
OnRejected_Retry(r, err) ==
    [r EXCEPT !.calls = @ + 1]

\* A request whose transport promise was rejected with err: then() was
\* given no rejection callback, so the rejection passes through.
OnRejected(r, err) ==
    [r EXCEPT !.state = "rejected",
              !.result = [kind |-> "rejected", reason |-> err]]

Pending == [kind |-> "pending"]

\* _request: one synchronous step up to and including axios.request(config).
\* The transport works on the config as it is at that moment.
Request(xhrmethod, baseurl, getdata, postdata, headers, axiosConfig) ==
    LET config == RequestConfig(xhrmethod, baseurl, getdata, postdata,
                                headers, axiosConfig)
    IN
    /\ Len(reqs) < MaxRequests
    /\ cfgHeap' = IF axiosConfig # Undefined
                  THEN [cfgHeap EXCEPT ![axiosConfig] = config]
                  ELSE cfgHeap
    /\ reqs' = Append(reqs,
                  [ config |-> config,
                    calls |-> 1,
                    state |-> "pending",
                    result |-> Pending,
                    \* history
                    method |-> xhrmethod,
                    args |-> [baseurl |-> baseurl, getdata |-> getdata,
                              postdata |-> postdata, headers |-> headers],
                    axiosConfig |-> axiosConfig,
                    \* the stored descriptor, when _request read it
                    descriptor |-> IF axiosConfig # Undefined
                                   THEN Undefined
                                   ELSE [ip |-> ip, port |-> port,
                                         protocol |-> protocol],
                    transport |-> Pending ])
    /\ UNCHANGED <<protocol, ip, port, url, lastSet>>
    /\ UNCHANGED <<regVars, helperVars>>

Get(a, axiosConfig) ==
    Request("GET", a.baseurl, a.getdata, "{}", a.headers, axiosConfig)

Delete(a, axiosConfig) ==
    Request("DELETE", a.baseurl, a.getdata, "{}", a.headers, axiosConfig)

Post(a, axiosConfig) ==
    Request("POST", a.baseurl, a.getdata, a.postdata, a.headers, axiosConfig)

Put(a, axiosConfig) ==
    Request("PUT", a.baseurl, a.getdata, a.postdata, a.headers, axiosConfig)

Patch(a, axiosConfig) ==
    Request("PATCH", a.baseurl, a.getdata, a.postdata, a.headers, axiosConfig)

\* The transport fulfils the promise of request i with resp.
TransportFulfil(i, resp) ==
    /\ reqs[i].state = "pending"
    /\ reqs' = [reqs EXCEPT ![i] =
                  [OnFulfilled(reqs[i], resp) EXCEPT
                      !.transport = [kind |-> "fulfilled", value |-> resp]]]
    /\ UNCHANGED <<protocol, ip, port, url, lastSet, cfgHeap>>
    /\ UNCHANGED <<regVars, helperVars>>

\* The transport rejects the promise of request i with err.
TransportReject(i, err) ==
    /\ reqs[i].state = "pending"
    /\ reqs' = [reqs EXCEPT ![i] =
                  [OnRejected(reqs[i], err) EXCEPT
                      !.transport = [kind |-> "rejected", reason |-> err]]]
    /\ UNCHANGED <<protocol, ip, port, url, lastSet, cfgHeap>>
    /\ UNCHANGED <<regVars, helperVars>>

(***************************************************************************)
(* AVACore: the API registry.                                              *)
(***************************************************************************)
\* JavaScript values the registry can hold or return.
JsUndefined == [type |-> "undefined"]
JsFunction(name) == [type |-> "function", name |-> name]

\* The labels callers use, the API classes they register and the base
\* paths they pass (Undefined: the argument is omitted).
Labels == {"X", "info", "toString"}
Classes == {"InfoAPI", "AVMAPI"}
BasePaths == {Undefined, "/ext/mysubnet"}

\* `apis` is created by the object literal {}, so its prototype is
\* Object.prototype; these are properties every such object inherits.
ObjectPrototype ==
    [ k \in {"constructor", "hasOwnProperty", "isPrototypeOf",
             "propertyIsEnumerable", "toLocaleString", "toString", "valueOf"}
        |-> JsFunction("Object.prototype." \o k) ]

\* obj[key] read on an object whose prototype is Object.prototype: an own
\* property first, then an inherited one, else undefined.
GetProperty(obj, key) ==
    IF key \in DOMAIN obj THEN obj[key]
    ELSE IF key \in DOMAIN ObjectPrototype THEN ObjectPrototype[key]
    ELSE JsUndefined

\* obj[key] = value: creates or overwrites the own property.
SetProperty(obj, key, value) ==
    [k \in DOMAIN obj \cup {key} |-> IF k = key THEN value ELSE obj[k]]

\* new constructorFN(...args): a fresh object, told apart by its identity.
New(constructorFN, args) ==
    [type |-> "object", id |-> nextInst, class |-> constructorFN, args |-> args]

\* The registry after addAPI(apiName, constructorFN, baseurl).
addAPI(apiName, constructorFN, baseurl) ==
    IF baseurl = Undefined
    THEN SetProperty(apis, apiName, New(constructorFN, <<"this">>))
    ELSE SetProperty(apis, apiName, New(constructorFN, <<"this", baseurl>>))

\* api(apiName)
api(apiName) == GetProperty(apis, apiName)

AddAPI(apiName, constructorFN, baseurl) ==
    /\ nextInst <= MaxInstances
    /\ apis' = addAPI(apiName, constructorFN, baseurl)
    /\ nextInst' = nextInst + 1
    /\ regLog' = Append(regLog, [label |-> apiName, id |-> nextInst,
                                 class |-> constructorFN, baseurl |-> baseurl])
    /\ UNCHANGED ret
    /\ UNCHANGED <<connVars, helperVars>>

Api(apiName) ==
    /\ ret' = [label |-> apiName, value |-> api(apiName), at |-> Len(regLog)]
    /\ UNCHANGED <<apis, nextInst, regLog>>
    /\ UNCHANGED <<connVars, helperVars>>

(***************************************************************************)
(* BinTools: the checksummed base58 codec (src/utils/bintools.ts, which    *)
(* the helper functions import).  Buffers are sequences of bytes 0..255,   *)
(* strings are sequences of one-character strings.                         *)
(***************************************************************************)
B58Alphabet ==
    << "1", "2", "3", "4", "5", "6", "7", "8", "9", "A", "B", "C",
       "D", "E", "F", "G", "H", "J", "K", "L", "M", "N", "P", "Q",
       "R", "S", "T", "U", "V", "W", "X", "Y", "Z", "a", "b", "c",
       "d", "e", "f", "g", "h", "i", "j", "k", "m", "n", "o", "p",
       "q", "r", "s", "t", "u", "v", "w", "x", "y", "z" >>

B58Chars == {B58Alphabet[i] : i \in DOMAIN B58Alphabet}

\* The number of leading elements of seq equal to x.
RECURSIVE LeadingCount(_, _)
LeadingCount(seq, x) ==
    IF seq # <<>> /\ Head(seq) = x THEN 1 + LeadingCount(Tail(seq), x) ELSE 0

\* seq without its first n elements.
Drop(seq, n) == SubSeq(seq, n + 1, Len(seq))

\* Long division of the number with digits ds (base `from`, most significant
\* first) by `to`: <<the quotient's digits, the remainder>>.
RECURSIVE LongDiv(_, _, _, _)
LongDiv(ds, from, to, rem) ==
    IF ds = <<>> THEN << <<>>, rem >>
    ELSE LET cur == rem * from + Head(ds)
             rest == LongDiv(Tail(ds), from, to, cur % to)
         IN << <<cur \div to>> \o rest[1], rest[2] >>

\* The digits in base `to` of the number with digits ds in base `from`; zero
\* has no digits.
RECURSIVE ToBase(_, _, _)
ToBase(ds, from, to) ==
    LET sig == Drop(ds, LeadingCount(ds, 0)) IN
    IF sig = <<>> THEN <<>>
    ELSE LET qr == LongDiv(sig, from, to, 0)
         IN ToBase(qr[1], from, to) \o <<qr[2]>>

\* base58 of a buffer: one "1" per leading zero byte, then the digits.
B58Encode(bytes) ==
    LET zeros == LeadingCount(bytes, 0)
        digits == ToBase(bytes, 256, 58)
    IN [i \in 1..zeros |-> "1"] \o [i \in 1..Len(digits) |-> B58Alphabet[digits[i] + 1]]

B58Index(c) == CHOOSE i \in DOMAIN B58Alphabet : B58Alphabet[i] = c

\* The buffer a base58 string stands for; fails on a character outside the
\* alphabet.
B58Decode(str) ==
    IF \E i \in DOMAIN str : str[i] \notin B58Chars
    THEN [kind |-> "throw", error |-> "Base58Error"]
    ELSE LET zeros == LeadingCount(str, "1")
             digits == [i \in 1..Len(str) |-> B58Index(str[i]) - 1]
         IN [kind |-> "return",
             value |-> [i \in 1..zeros |-> 0] \o ToBase(digits, 58, 256)]

\* The 4-byte checksum of a buffer.  Upstream takes the last four bytes of a
\* SHA-256 digest; the model takes Adler-32, a fixed function of the bytes.
RECURSIVE AdlerSums(_, _, _)
AdlerSums(bytes, a, b) ==
    IF bytes = <<>> THEN <<a, b>>
    ELSE LET a2 == (a + Head(bytes)) % 65521
         IN AdlerSums(Tail(bytes), a2, (b + a2) % 65521)

Checksum(bytes) ==
    LET ab == AdlerSums(bytes, 1, 0)
    IN << ab[2] \div 256, ab[2] % 256, ab[1] \div 256, ab[1] % 256 >>

\* cb58Encode: base58 of (payload, checksum).
cb58Encode(bytes) == B58Encode(bytes \o Checksum(bytes))

\* cb58Decode: the payload, or a failure when the string is not base58 or its
\* last four bytes are not the checksum of the rest.
cb58Decode(str) ==
    LET raw == B58Decode(str) IN
    IF raw.kind = "throw" THEN raw
    ELSE IF Len(raw.value) < 4 THEN [kind |-> "throw", error |-> "ChecksumError"]
    ELSE LET n == Len(raw.value) - 4
             payload == SubSeq(raw.value, 1, n)
         IN IF Drop(raw.value, n) = Checksum(payload)
            THEN [kind |-> "return", value |-> payload]
            ELSE [kind |-> "throw", error |-> "ChecksumError"]

(***************************************************************************)
(* helperfunctions.ts: private-key and node-ID strings.                    *)
(***************************************************************************)
\* The TLA+ string with the characters of cs.
RECURSIVE Str(_)
Str(cs) == IF cs = <<>> THEN "" ELSE Head(cs) \o Str(Tail(cs))

\* String.prototype.startsWith
StartsWith(str, prefix) ==
    /\ Len(str) >= Len(prefix)
    /\ SubSeq(str, 1, Len(prefix)) = prefix

\* String.prototype.split: the pieces of str between occurrences of sep (one
\* character); a string without sep is its own single piece.
RECURSIVE Split(_, _)
Split(str, sep) ==
    IF \A i \in DOMAIN str : str[i] # sep THEN <<str>>
    ELSE LET i == CHOOSE j \in DOMAIN str :
                      str[j] = sep /\ \A k \in 1..(j - 1) : str[k] # sep
         IN <<SubSeq(str, 1, i - 1)>> \o Split(Drop(str, i), sep)

\* What a helper call did: the value it returned or the error it threw, and
\* the calls it made to cb58Decode on the way.
Return(v, calls) == [kind |-> "return", value |-> v, decodeCalls |-> calls]
Throw(name, message, calls) ==
    [kind |-> "throw", error |-> [name |-> name, message |-> message],
     decodeCalls |-> calls]

\* The outcome of `return bintools.cb58Decode(segment)`.
ReturnDecoded(segment) ==
    LET d == cb58Decode(segment) IN
    IF d.kind = "return" THEN Return(d.value, <<segment>>)
    ELSE Throw(d.error, "", <<segment>>)

\* bufferToPrivateKeyString encoding without the checksum.
bufferToPrivateKeyString_NoChecksum(pk) ==
    <<"P", "r", "i", "v", "a", "t", "e", "K", "e", "y", "-">> \o B58Encode(pk)

bufferToPrivateKeyString(pk) ==
    <<"P", "r", "i", "v", "a", "t", "e", "K", "e", "y", "-">> \o cb58Encode(pk)

\* privateKeyStringToBuffer testing for "PrivateKey", without the dash.
privateKeyStringToBuffer_PrefixWithoutDash(pk) ==
    IF ~StartsWith(pk, <<"P", "r", "i", "v", "a", "t", "e", "K", "e", "y">>)
    THEN Throw("PrivateKeyError",
               "Error - privateKeyStringToBuffer: private keys must start with 'PrivateKey-'",
               <<>>)
    ELSE LET pksplit == Split(pk, "-")
         IN ReturnDecoded(pksplit[Len(pksplit)])

privateKeyStringToBuffer(pk) ==
    IF ~StartsWith(pk, <<"P", "r", "i", "v", "a", "t", "e", "K", "e", "y", "-">>)
    THEN Throw("PrivateKeyError",
               "Error - privateKeyStringToBuffer: private keys must start with 'PrivateKey-'",
               <<>>)
    ELSE LET pksplit == Split(pk, "-")
         IN ReturnDecoded(pksplit[Len(pksplit)])

bufferToNodeIDString(pk) ==
    <<"N", "o", "d", "e", "I", "D", "-">> \o cb58Encode(pk)

NodeIDStringToBuffer(pk) ==
    IF ~StartsWith(pk, <<"N", "o", "d", "e", "I", "D", "-">>)
    THEN Throw("NodeIdError",
               "Error - privateNodeIDToBuffer: nodeID must start with 'NodeID-'",
               <<>>)
    ELSE LET pksplit == Split(pk, "-")
         IN ReturnDecoded(pksplit[Len(pksplit)])

NoCall == [type |-> "none"]

(***************************************************************************)
(* helperfunctions.ts: getPreferredHRP, over the tables of constants.ts.   *)
(***************************************************************************)
JsNumber(n) == [type |-> "number", value |-> n]
JsString(str) == [type |-> "string", value |-> str]

\* The property key a value is converted to: `${networkID}`.
PropertyKey(v) == IF v.type = "undefined" THEN "undefined" ELSE ToString(v.value)

\* `key in obj` on an object whose prototype is Object.prototype.
HasProperty(obj, key) == key \in DOMAIN obj \/ key \in DOMAIN ObjectPrototype

NetworkIDToHRP ==
    [ k \in {"0", "1", "2", "3", "4", "5", "1337", "12345"} |->
        JsString(CASE k = "0" -> "custom"
                   [] k = "1" -> "avax"
                   [] k = "2" -> "cascade"
                   [] k = "3" -> "denali"
                   [] k = "4" -> "everest"
                   [] k = "5" -> "fuji"
                   [] k = "1337" -> "custom"
                   [] k = "12345" -> "local") ]

DefaultNetworkID == 1

FallbackHRP == JsString("custom")

\* getPreferredHRP without the branch for an omitted argument.
getPreferredHRP_NoDefaultBranch(networkID) ==
    IF HasProperty(NetworkIDToHRP, PropertyKey(networkID))
    THEN GetProperty(NetworkIDToHRP, PropertyKey(networkID))
    ELSE FallbackHRP

getPreferredHRP(networkID) ==
    IF HasProperty(NetworkIDToHRP, PropertyKey(networkID))
    THEN GetProperty(NetworkIDToHRP, PropertyKey(networkID))
    ELSE IF networkID.type = "undefined"
    THEN GetProperty(NetworkIDToHRP, PropertyKey(JsNumber(DefaultNetworkID)))
    ELSE FallbackHRP

(***************************************************************************)
(* helperfunctions.ts: the cost of an import transaction.  A transaction   *)
(* is the byte length of its serialization and the costs its import        *)
(* inputs report, in order.                                                *)
(***************************************************************************)
calcBytesCost(len) == len * txBytesGas

\* The forEach loop of costImportTx: cost after the inputs from position i on.
RECURSIVE AddInputCosts(_, _, _)
AddInputCosts(inputs, i, cost) ==
    IF i > Len(inputs) THEN cost
    ELSE LET inCost == inputs[i] IN AddInputCosts(inputs, i + 1, cost + inCost)

\* costImportTx assigning each input's cost instead of adding it.
costImportTx_Assign(t) ==
    IF t.importInputs = <<>> THEN calcBytesCost(t.byteLength)
    ELSE t.importInputs[Len(t.importInputs)]

costImportTx(t) ==
    LET cost == calcBytesCost(t.byteLength)
    IN AddInputCosts(t.importInputs, 1, cost)

(***************************************************************************)
(* The helper calls the model makes.                                       *)
(***************************************************************************)
ByteSamples == {0, 1, 58, 255}

\* Every buffer of at most n sampled bytes.
RECURSIVE BuffersUpTo(_)
BuffersUpTo(n) ==
    IF n = 0 THEN {<<>>}
    ELSE LET shorter == BuffersUpTo(n - 1)
         IN shorter \cup {Append(b, x) : b \in shorter, x \in ByteSamples}

Buffers == BuffersUpTo(MaxBufLen)

\* str with its last character replaced by another one of the alphabet.
Corrupt(str) ==
    IF str = <<>> THEN <<"2">>
    ELSE [str EXCEPT ![Len(str)] = IF @ = "z" THEN "y" ELSE "z"]

\* What may follow a prefix: valid encodings, damaged ones, strings that are
\* not base58, and nothing.
StringBodies ==
    {cb58Encode(b) : b \in Buffers}
        \cup {Corrupt(cb58Encode(b)) : b \in Buffers}
        \cup { <<>>, <<"a", "b", "c">>, <<"0", "O">> }

StringHeads ==
    { <<>>,
      <<"P", "r", "i", "v", "a", "t", "e", "K", "e", "y", "-">>,
      <<"N", "o", "d", "e", "I", "D", "-">>,
      <<"N", "o", "t", "A", "P", "r", "e", "f", "i", "x", "-">>,
      <<"P", "r", "i", "v", "a", "t", "e", "K", "e", "y">>,
      <<"N", "o", "d", "e", "I", "D">>,
      <<"p", "r", "i", "v", "a", "t", "e", "k", "e", "y", "-">>,
      <<"n", "o", "d", "e", "i", "d", "-">>,
      <<"X", "P", "r", "i", "v", "a", "t", "e", "K", "e", "y", "-">>,
      <<"P", "r", "i", "v", "a", "t", "e", "K", "e", "y", "-", "N", "o", "d", "e", "I", "D", "-">>,
      <<"N", "o", "d", "e", "I", "D", "-", "P", "r", "i", "v", "a", "t", "e", "K", "e", "y", "-">>,
      <<"P", "r", "i", "v", "a", "t", "e", "K", "e", "y", "-", "-">> }

StringInputs == {h \o b : h \in StringHeads, b \in StringBodies}

NetworkIDs ==
    {JsNumber(n) : n \in 0..MaxNetworkID \cup {1337, 12345, 99999}}
        \cup {JsUndefined}

InputCosts == {0, 1000, 2000}

\* The values the fee table may give the byte-gas rate.
ByteGasRates == {1, 2}

RECURSIVE CostListsUpTo(_)
CostListsUpTo(n) ==
    IF n = 0 THEN {<<>>}
    ELSE LET shorter == CostListsUpTo(n - 1)
         IN shorter \cup {Append(l, c) : l \in shorter, c \in InputCosts}

Transactions ==
    [byteLength : 0..MaxTxLen, importInputs : CostListsUpTo(MaxInputs)]

\* A helper call is [fn, arg, of]: the function, its argument and, for a
\* string argument that the call before made from a buffer, that buffer.
NoBuffer == <<-1>>

HelperCall(fn, arg) == [fn |-> fn, arg |-> arg, of |-> NoBuffer]

\* The calls the clients of the helpers make.
HelperCalls ==
    {HelperCall("getPreferredHRP", n) : n \in NetworkIDs}
        \cup {HelperCall("bufferToPrivateKeyString", b) : b \in Buffers}
        \cup {HelperCall("privateKeyStringToBuffer", str) : str \in StringInputs}
        \cup {HelperCall("bufferToNodeIDString", b) : b \in Buffers}
        \cup {HelperCall("NodeIDStringToBuffer", str) : str \in StringInputs}
        \cup {HelperCall("costImportTx", t) : t \in Transactions}

\* The call hcall runs to its end, with outcome res.
Run(fn, res) ==
    /\ hcall.fn = fn
    /\ hres = NoCall
    /\ hres' = res
    /\ UNCHANGED <<txBytesGas, hcall>>
    /\ UNCHANGED <<connVars, regVars>>

\* The outcome of the call before is passed on to fn, with outcome res.
Chain(after, fn, res) ==
    /\ hcall.fn = after
    /\ hres # NoCall
    /\ hcall' = [fn |-> fn, arg |-> hres.value, of |-> hcall.arg]
    /\ hres' = res
    /\ UNCHANGED <<txBytesGas, tx>>
    /\ UNCHANGED <<connVars, regVars>>

CallGetPreferredHRP ==
    /\ Run("getPreferredHRP", Return(getPreferredHRP(hcall.arg), <<>>))
    /\ UNCHANGED tx

CallBufferToPrivateKeyString ==
    /\ Run("bufferToPrivateKeyString",
           Return(bufferToPrivateKeyString(hcall.arg), <<>>))
    /\ UNCHANGED tx

CallPrivateKeyStringToBuffer ==
    /\ Run("privateKeyStringToBuffer", privateKeyStringToBuffer(hcall.arg))
    /\ UNCHANGED tx

\* privateKeyStringToBuffer(bufferToPrivateKeyString(b))
PrivateKeyRoundTrip ==
    Chain("bufferToPrivateKeyString", "privateKeyStringToBuffer",
          privateKeyStringToBuffer(hres.value))

CallBufferToNodeIDString ==
    /\ Run("bufferToNodeIDString", Return(bufferToNodeIDString(hcall.arg), <<>>))
    /\ UNCHANGED tx

CallNodeIDStringToBuffer ==
    /\ Run("NodeIDStringToBuffer", NodeIDStringToBuffer(hcall.arg))
    /\ UNCHANGED tx

\* NodeIDStringToBuffer(bufferToNodeIDString(b))
NodeIDRoundTrip ==
    Chain("bufferToNodeIDString", "NodeIDStringToBuffer",
          NodeIDStringToBuffer(hres.value))

\* costImportTx(tx); tx' is the transaction as the call leaves it.
CallCostImportTx ==
    /\ Run("costImportTx", Return(costImportTx(tx), <<>>))
    /\ tx' = tx

\* No registry call was made yet: the class initialiser apis = {}.
InitRegistry ==
    /\ apis = <<>> /\ nextInst = 1 /\ regLog = <<>>
    /\ ret = [label |-> Undefined, value |-> NoCall, at |-> 0]

\* The fee table is loaded and a helper is about to be called.
InitHelpers ==
    /\ txBytesGas \in ByteGasRates
    /\ hcall \in HelperCalls
    /\ hres = NoCall
    /\ tx = IF hcall.fn = "costImportTx" THEN hcall.arg ELSE NoCall

\* new AVACore(ip, port, protocol)
InitConn ==
    \E a \in Addresses :
        LET this == setAddress(a.ip, a.port, a.protocol) IN
        /\ ip = this.ip
        /\ port = this.port
        /\ protocol = this.protocol
        /\ url = this.url
        /\ lastSet = a
        /\ cfgHeap = [ref \in ConfigRefs |-> CallerConfig(ref)]
        /\ reqs = <<>>

\* The parts a specification leaves out stay as they are here throughout.
NoConn ==
    /\ ip = Undefined /\ port = 0 /\ protocol = Undefined /\ url = Undefined
    /\ lastSet = Undefined /\ cfgHeap = <<>> /\ reqs = <<>>

NoHelpers ==
    /\ hcall = NoCall /\ hres = NoCall /\ tx = NoCall /\ txBytesGas = 0

ConnInit == InitConn /\ InitRegistry /\ NoHelpers

HelpersInit == NoConn /\ InitRegistry /\ InitHelpers

\* The middleware's connection and requests.
NextConn ==
    \/ \E a \in Addresses : SetAddress(a)
    \/ \E a \in GetArgs, c \in ConfigRefs \cup {Undefined} : Get(a, c)
    \/ \E a \in DeleteArgs, c \in ConfigRefs \cup {Undefined} : Delete(a, c)
    \/ \E a \in PostArgs, c \in ConfigRefs \cup {Undefined} : Post(a, c)
    \/ \E a \in PutArgs, c \in ConfigRefs \cup {Undefined} : Put(a, c)
    \/ \E a \in PatchArgs, c \in ConfigRefs \cup {Undefined} : Patch(a, c)
    \/ \E i \in DOMAIN reqs, resp \in Responses : TransportFulfil(i, resp)
    \/ \E i \in DOMAIN reqs, err \in TransportErrors : TransportReject(i, err)

SpecConn == ConnInit /\ [][NextConn]_vars

\* The middleware's registry.
NextRegistry ==
    \/ \E l \in Labels, c \in Classes, b \in BasePaths : AddAPI(l, c, b)
    \/ \E l \in Labels : Api(l)

SpecRegistry == ConnInit /\ [][NextRegistry]_vars

\* The helper functions.
NextHelpers ==
    \/ CallGetPreferredHRP
    \/ CallBufferToPrivateKeyString
    \/ CallPrivateKeyStringToBuffer
    \/ PrivateKeyRoundTrip
    \/ CallBufferToNodeIDString
    \/ CallNodeIDStringToBuffer
    \/ NodeIDRoundTrip
    \/ CallCostImportTx

SpecHelpers == HelpersInit /\ [][NextHelpers]_vars

(***************************************************************************)
(* Properties.                                                             *)
(***************************************************************************)
\* "proto://ip:port" of a descriptor.
UrlOf(d) == d.protocol \o "://" \o d.ip \o ":" \o ToString(d.port)

\* The descriptor a setAddress call with arguments a asks for.
Asked(a) ==
    [ ip |-> a.ip, port |-> a.port,
      protocol |-> IF a.protocol = Undefined THEN "http" ELSE a.protocol ]

\* C1: after the constructor and any setAddress calls, getURL() is
\* getProtocol() + "://" + getIP() + ":" + getPort(), and the three getters
\* return the arguments of the most recent call (an omitted protocol being
\* "http"): the four fields never come from different calls.
C1_AddressAtomic ==
    /\ getURL = getProtocol \o "://" \o getIP \o ":" \o ToString(getPort)
    /\ getIP = lastSet.ip
    /\ getPort = lastSet.port
    /\ getProtocol = Asked(lastSet).protocol
    /\ getURL = UrlOf(Asked(lastSet))

\* setAddress was called after a request had read another descriptor.
C1_Witness ==
    \E i \in DOMAIN reqs :
        /\ reqs[i].axiosConfig = Undefined
        /\ reqs[i].descriptor.ip = "127.0.0.1"
        /\ getIP = "api.avax.network"
        /\ lastSet.protocol = "https"

\* C2: a request issued without a transport override hands the transport the
\* complete protocol://ip:port of the one descriptor in force when it was
\* issued, whatever setAddress calls follow while it is in flight.
C2_BaseURLOfOneDescriptor ==
    \A i \in DOMAIN reqs :
        reqs[i].axiosConfig = Undefined =>
            /\ reqs[i].descriptor \in {Asked(a) : a \in Addresses}
            /\ reqs[i].config.baseURL = UrlOf(reqs[i].descriptor)

\* A request without override is in flight and setAddress has changed the
\* descriptor since it was issued.
C2_Witness ==
    \E i \in DOMAIN reqs :
        /\ reqs[i].state = "pending"
        /\ reqs[i].axiosConfig = Undefined
        /\ reqs[i].descriptor # [ip |-> ip, port |-> port, protocol |-> protocol]

\* The instance the most recent addAPI for a label stored, undefined when
\* there was none.
RECURSIVE LastRegistered(_, _)
LastRegistered(log, label) ==
    IF log = <<>> THEN JsUndefined
    ELSE LET e == log[Len(log)] IN
         IF e.label = label
         THEN [ type |-> "object", id |-> e.id, class |-> e.class,
                args |-> IF e.baseurl = Undefined THEN <<"this">>
                         ELSE <<"this", e.baseurl>> ]
         ELSE LastRegistered(SubSeq(log, 1, Len(log) - 1), label)

\* C3: every api(label) call returned the instance that the most recent
\* addAPI for that label before it constructed, or undefined when no addAPI
\* for that label had happened; so a later addAPI replaces the instance
\* without an error and leaves the other labels' entries as they were.
C3_ApiReturnsLastRegistered ==
    ret.value # NoCall =>
        ret.value = LastRegistered(SubSeq(regLog, 1, ret.at), ret.label)

\* C4: a request whose transport call succeeded resolves to a
\* RequestResponseData whose data, headers, request, status and statusText
\* are those of its own transport response.
C4_ResponseTranslated ==
    \A i \in DOMAIN reqs :
        reqs[i].transport.kind = "fulfilled" =>
            /\ reqs[i].state = "fulfilled"
            /\ reqs[i].result.kind = "fulfilled"
            /\ DOMAIN reqs[i].result.value =
                    {"data", "headers", "request", "status", "statusText"}
            /\ reqs[i].result.value.data = reqs[i].transport.value.data
            /\ reqs[i].result.value.headers = reqs[i].transport.value.headers
            /\ reqs[i].result.value.request = reqs[i].transport.value.request
            /\ reqs[i].result.value.status = reqs[i].transport.value.status
            /\ reqs[i].result.value.statusText = reqs[i].transport.value.statusText

\* Two requests were in flight at once and the one issued later got its
\* response first.
C4_Witness ==
    /\ Len(reqs) >= 2
    /\ reqs[1].state = "pending"
    /\ reqs[2].state = "fulfilled"
    /\ reqs[2].result.value.status = 200
    /\ reqs[2].result.value.data = "ok"

\* C5: every request has called the transport exactly once, and one whose
\* transport call failed is rejected with that same error.
C5_OneCallAndErrorPropagated ==
    \A i \in DOMAIN reqs :
        /\ reqs[i].calls = 1
        /\ reqs[i].transport.kind = "rejected" =>
              /\ reqs[i].state = "rejected"
              /\ reqs[i].result = [kind |-> "rejected",
                                   reason |-> reqs[i].transport.reason]

\* A request failed in the transport.
C5_Witness ==
    \E i \in DOMAIN reqs :
        /\ reqs[i].transport.kind = "rejected"
        /\ reqs[i].result.kind = "rejected"

\* Whether the characters of prefix start str.
IsPrefixOf(prefix, str) ==
    /\ Len(prefix) <= Len(str)
    /\ \A i \in DOMAIN prefix : str[i] = prefix[i]

PrivateKeyLiteral == <<"P", "r", "i", "v", "a", "t", "e", "K", "e", "y", "-">>

NodeIDLiteral == <<"N", "o", "d", "e", "I", "D", "-">>

\* C6: a string that does not start with "PrivateKey-" makes
\* privateKeyStringToBuffer throw a PrivateKeyError whose message names that
\* prefix, and one that does not start with "NodeID-" makes
\* NodeIDStringToBuffer throw a NodeIdError naming its prefix; cb58Decode is
\* not called and nothing is returned.
C6_PrefixEnforced ==
    hres # NoCall =>
        /\ (hcall.fn = "privateKeyStringToBuffer"
                /\ ~IsPrefixOf(PrivateKeyLiteral, hcall.arg)) =>
              /\ hres.kind = "throw"
              /\ hres.error.name = "PrivateKeyError"
              /\ hres.error.message =
                    "Error - privateKeyStringToBuffer: private keys must start with '"
                        \o Str(PrivateKeyLiteral) \o "'"
              /\ hres.decodeCalls = <<>>
        /\ (hcall.fn = "NodeIDStringToBuffer"
                /\ ~IsPrefixOf(NodeIDLiteral, hcall.arg)) =>
              /\ hres.kind = "throw"
              /\ hres.error.name = "NodeIdError"
              /\ hres.error.message =
                    "Error - privateNodeIDToBuffer: nodeID must start with '"
                        \o Str(NodeIDLiteral) \o "'"
              /\ hres.decodeCalls = <<>>

\* privateKeyStringToBuffer("NotAPrefix-abc") has thrown.
C6_Witness ==
    /\ hcall.fn = "privateKeyStringToBuffer"
    /\ hcall.arg = <<"N", "o", "t", "A", "P", "r", "e", "f", "i", "x", "-", "a", "b", "c">>
    /\ hres # NoCall
    /\ hres.kind = "throw"

\* C7: bufferToPrivateKeyString(b) is "PrivateKey-" followed by the
\* checksummed base58 of b, and privateKeyStringToBuffer of that string
\* decodes its last '-'-delimited segment and returns b, the empty buffer
\* included.
C7_PrivateKeyRoundTrip ==
    hres # NoCall =>
        /\ hcall.fn = "bufferToPrivateKeyString" =>
              /\ hres.kind = "return"
              /\ hres.value = PrivateKeyLiteral \o cb58Encode(hcall.arg)
        /\ (hcall.fn = "privateKeyStringToBuffer" /\ hcall.of # NoBuffer) =>
              /\ hres.kind = "return"
              /\ hres.value = hcall.of
              /\ hres.decodeCalls = <<cb58Encode(hcall.of)>>

\* The round trip was made on the empty buffer.
C7_Witness ==
    /\ hcall.fn = "privateKeyStringToBuffer"
    /\ hcall.of = <<>>
    /\ hres.kind = "return"
    /\ hres.value = <<>>

\* C8: getPreferredHRP returns the table's prefix for an ID that is a key of
\* the table, the default network's prefix when the argument is omitted and
\* the fallback constant for any other ID; it always returns a string.
C8_PreferredHRP ==
    (hres # NoCall /\ hcall.fn = "getPreferredHRP") =>
        LET n == hcall.arg
            known == n.type = "number" /\ ToString(n.value) \in DOMAIN NetworkIDToHRP
        IN
        /\ hres.kind = "return"
        /\ hres.value.type = "string"
        /\ known => hres.value = NetworkIDToHRP[ToString(n.value)]
        /\ n.type = "undefined" =>
              hres.value = NetworkIDToHRP[ToString(DefaultNetworkID)]
        /\ (n.type = "number" /\ ~known) => hres.value = FallbackHRP

\* getPreferredHRP() was called without an argument.
C8_Witness ==
    /\ hcall.fn = "getPreferredHRP"
    /\ hcall.arg = JsUndefined
    /\ hres # NoCall
    /\ hres.value = JsString("avax")

RECURSIVE SumOf(_)
SumOf(costs) == IF costs = <<>> THEN 0 ELSE Head(costs) + SumOf(Tail(costs))

\* C9: costImportTx(tx) is the byte length of tx times the byte-gas rate,
\* plus the costs of its import inputs, each once; the transaction is left
\* as it was, so the value is a function of it.
C9_ImportCost ==
    (hres # NoCall /\ hcall.fn = "costImportTx") =>
        /\ hres.kind = "return"
        /\ hres.value = hcall.arg.byteLength * txBytesGas
                            + SumOf(hcall.arg.importInputs)
        /\ tx = hcall.arg

\* A transaction of 3 bytes with two inputs was costed at rate 2.
C9_Witness ==
    /\ hcall.fn = "costImportTx"
    /\ hcall.arg = [byteLength |-> 3, importInputs |-> <<1000, 2000>>]
    /\ txBytesGas = 2
    /\ hres # NoCall
    /\ hres.value = 3006

\* C10: the transport gets the method, path, query parameters, body and
\* headers of the call; its base URL is the override's own when an override
\* is given, and protocol://ip:port of the stored descriptor otherwise.
C10_ConfigSent ==
    \A i \in DOMAIN reqs :
        LET r == reqs[i] IN
        /\ r.config.method = r.method
        /\ r.config.url = r.args.baseurl
        /\ r.config.params = r.args.getdata
        /\ r.config.data = r.args.postdata
        /\ r.config.headers =
              (IF r.args.headers = Undefined THEN "{}" ELSE r.args.headers)
        /\ r.axiosConfig # Undefined =>
              /\ r.config.baseURL = CallerConfig(r.axiosConfig).baseURL
              /\ r.config.responseType = CallerConfig(r.axiosConfig).responseType
        /\ r.axiosConfig = Undefined =>
              /\ r.config.baseURL = UrlOf(r.descriptor)
              /\ r.config.responseType = "text"

\* The same override object was used by two requests with different
\* arguments.
C10_Witness ==
    /\ Len(reqs) >= 2
    /\ reqs[1].axiosConfig = "cfgProxy" /\ reqs[2].axiosConfig = "cfgProxy"
    /\ reqs[1].method = "POST" /\ reqs[2].method = "GET"
    /\ reqs[1].args.baseurl # reqs[2].args.baseurl

=============================================================================
